---- MODULE Spec2Model ----
(***************************************************************************)
(* Task Sequencer (index.ipynb): the run of one sheet through              *)
(* df_from_sheet and main, the Monte Carlo loop of simulate_failures, and  *)
(* trim_df as a function of an arbitrary sheet.                            *)
(*                                                                         *)
(* Encoding.  Every cell of a sheet is an integer: 0 is the empty          *)
(* sentinel, task names are the numbers 11, 12, ... (a name is any cell    *)
(* value that is not a row number), a duration is a whole number of time   *)
(* units and a probability is given in tenths (5 is 0.5).  Floating point  *)
(* values are fixed-point numbers with three decimals (1000 is 1.0), with  *)
(* PInf, NInf and NaN for the IEEE specials.                               *)
(***************************************************************************)
EXTENDS Integers, Sequences, FiniteSets, TLC

VARIABLES
    pc,              \* position of run_program / main
    sheet,           \* the ipysheet grid, as read by to_dataframe
    df,              \* the dataframe main works on
    deps,            \* main: df.filter(like='D').values
    perms,           \* main: the orderings gen_perms yields, in order
    valid_perms,     \* main: validate_perms(perms, deps)
    sums,            \* main: get_expected_times(valid_perms, df)
    sorted_sums,     \* main: np.sort(sums)
    best_order,      \* main: valid_perms[np.argmin(sums)]
    best_df,         \* main: present_task_names(best_order, df)
    best_index,      \* main: best_df.replace(name_to_row_dict(df)) - 1
    sim_pc,          \* position of simulate_failures
    sim_time,        \* simulate_failures: time (durations in attempt order)
    sim_prob,        \* simulate_failures: prob (probabilities in attempt order)
    totals,          \* simulate_failures: totals, one array per task step
    success_count,   \* simulate_failures: success_count
    prior_task_time, \* simulate_failures: prior_task_time
    sim_j,           \* simulate_failures: number of task steps done
    hist_vals,       \* simulate_failures: the returned np.hstack(totals)
    trim_pc,         \* position of a call of trim_df
    trim_in,         \* trim_df: the argument
    trim_out         \* trim_df: the result

vars == <<pc, sheet, df, deps, perms, valid_perms, sums, sorted_sums, best_order,
          best_df, best_index, sim_pc, sim_time, sim_prob, totals, success_count,
          prior_task_time, sim_j, hist_vals, trim_pc, trim_in, trim_out>>

mainVars == <<pc, sheet, df, deps, perms, valid_perms, sums, sorted_sums,
              best_order, best_df, best_index>>
simVars == <<sim_pc, sim_time, sim_prob, totals, success_count, prior_task_time,
             sim_j, hist_vals>>
trimVars == <<trim_pc, trim_in, trim_out>>

----------------------------------------------------------------------------
(* Bounds of the model *)

MaxTasks == 3        \* tasks entered in a sheet
MaxDepCells == 4     \* tasks times dependency columns filled in a sheet
MaxTrimRows == 3     \* rows of an argument of trim_df
MaxTrimCols == 3     \* columns of an argument of trim_df
SimTrials == 3       \* trials simulate_failures starts with (50000 in the code)
MaxDraw == 4         \* largest value an exponential draw takes, in time units
SimMaxTasks == 3     \* tasks of a table handed to simulate_failures

----------------------------------------------------------------------------
(* Sequences *)

Range(s) == {s[i] : i \in 1..Len(s)}

RECURSIVE Flatten(_)
Flatten(ss) == IF ss = <<>> THEN <<>> ELSE ss[1] \o Flatten(Tail(ss))

SetMin(S) == CHOOSE x \in S : \A y \in S : x <= y

RECURSIVE Fact(_)
Fact(n) == IF n = 0 THEN 1 ELSE n * Fact(n - 1)

----------------------------------------------------------------------------
(* Floating point: fixed-point numbers with the IEEE specials numpy produces *)

Scale == 10 ^ 3
PInf == 2 * (10 ^ 9)
NInf == 0 - PInf
NaN == PInf + 1

IsFinite(x) == x \notin {PInf, NInf, NaN}

\* 1.0 as a float
One == Scale

\* .astype(float) of a duration cell (whole time units)
TimeToFloat(t) == t * Scale

\* .astype(float) of a probability cell (tenths)
ProbToFloat(p) == p * (Scale \div 10)

FNeg(a) ==
    IF a = NaN THEN NaN
    ELSE IF a = PInf THEN NInf
    ELSE IF a = NInf THEN PInf
    ELSE 0 - a

FAdd(a, b) ==
    IF a = NaN \/ b = NaN THEN NaN
    ELSE IF a = PInf THEN (IF b = NInf THEN NaN ELSE PInf)
    ELSE IF a = NInf THEN (IF b = PInf THEN NaN ELSE NInf)
    ELSE IF b \in {PInf, NInf} THEN b
    ELSE a + b

FSub(a, b) == FAdd(a, FNeg(b))

FMul(a, b) ==
    IF a = NaN \/ b = NaN THEN NaN
    ELSE IF ~IsFinite(a) \/ ~IsFinite(b)
         THEN IF a = 0 \/ b = 0 THEN NaN
              ELSE IF (a > 0) = (b > 0) THEN PInf ELSE NInf
    ELSE (a * b) \div Scale

FDiv(a, b) ==
    IF a = NaN \/ b = NaN THEN NaN
    ELSE IF ~IsFinite(a)
         THEN IF ~IsFinite(b) THEN NaN
              ELSE IF (a > 0) = (b >= 0) THEN PInf ELSE NInf
    ELSE IF ~IsFinite(b) THEN 0
    ELSE IF b = 0
         THEN IF a = 0 THEN NaN ELSE IF a > 0 THEN PInf ELSE NInf
    ELSE (a * Scale) \div b

\* np.log at the arguments 1/(1-p) of a probability p given in tenths
LnTable ==
    (1000 :> 0) @@ (1111 :> 105) @@ (1250 :> 223) @@ (1428 :> 356) @@
    (1666 :> 510) @@ (2000 :> 693) @@ (2500 :> 916) @@ (3333 :> 1204) @@
    (5000 :> 1609) @@ (10000 :> 2303)

FLog(x) ==
    IF x = NaN \/ x = NInf THEN NaN
    ELSE IF x = PInf THEN PInf
    ELSE IF x < 0 THEN NaN
    ELSE IF x = 0 THEN NInf
    ELSE LnTable[x]

\* a < b of two floats (False when either is NaN)
FLess(a, b) == a # NaN /\ b # NaN /\ a < b

\* a <= b of two floats (False when either is NaN)
FLeq(a, b) == a # NaN /\ b # NaN /\ a <= b

\* np.sum of an array
RECURSIVE FSum(_)
FSum(s) == IF s = <<>> THEN 0 ELSE FAdd(s[1], FSum(Tail(s)))

\* np.prod of an array: the running product, taken from the left
RECURSIVE FProdFrom(_, _)
FProdFrom(acc, s) == IF s = <<>> THEN acc ELSE FProdFrom(FMul(acc, s[1]), Tail(s))

FProd(s) == FProdFrom(One, s)

----------------------------------------------------------------------------
(* The sheet and the dataframe: a sequence of rows, each a sequence of cells; *)
(* columns 1, 2, 3 are Task, Time, Probability and the rest are D1, D2, ...   *)

SheetRows == 10
SheetCols == 10

\* the '' of a cell nobody filled in
Blank == 0 - 1

\* the name of the task entered in row i when names are unique
Name(i) == 10 + i

NRows(d) == Len(d)
NCols(d) == IF d = <<>> THEN 0 ELSE Len(d[1])

TaskCol(d) == [i \in 1..NRows(d) |-> d[i][1]]
TimeCol(d) == [i \in 1..NRows(d) |-> d[i][2]]
ProbCol(d) == [i \in 1..NRows(d) |-> d[i][3]]

\* df.iloc[:,3:] of one row
DepCells(row) == SubSeq(row, 4, Len(row))

\* fill_blanks: empty values become 0
fill_blanks(d) ==
    [i \in 1..NRows(d) |->
        [c \in 1..Len(d[i]) |-> IF d[i][c] = Blank THEN 0 ELSE d[i][c]]]

\* (df.values==0).all(axis=1): the 0-based positions of the all-zero rows
ZeroRowLocs(d) ==
    {i - 1 : i \in {r \in 1..NRows(d) : \A c \in 1..NCols(d) : d[r][c] = 0}}

\* (df.values==0).all(axis=0): the 0-based positions of the all-zero columns
ZeroColLocs(d) ==
    {c - 1 : c \in {k \in 1..NCols(d) : \A r \in 1..NRows(d) : d[r][k] = 0}}

\* one pass of trim_df's loop: the entry of nonzero_shape for one axis
NonzeroShape(zero_locs, size) ==
    IF zero_locs = {} THEN size - 1 ELSE SetMin(zero_locs)

\* df.iloc[:r, :c]
ILoc(d, r, c) ==
    [i \in 1..(IF r < NRows(d) THEN r ELSE NRows(d)) |->
        SubSeq(d[i], 1, IF c < NCols(d) THEN c ELSE NCols(d))]

trim_df(d) ==
    ILoc(d, NonzeroShape(ZeroRowLocs(d), NRows(d)),
            NonzeroShape(ZeroColLocs(d), NCols(d)))

\* dict(zip(df['Task'], df.index + 1)): a repeated name keeps its last row
name_to_row_dict(d) ==
    [nm \in Range(TaskCol(d)) |->
        CHOOSE i \in 1..NRows(d) :
            /\ d[i][1] = nm
            /\ \A k \in 1..NRows(d) : d[k][1] = nm => k <= i]

\* dict(zip(df.index + 1, df['Task']))
row_to_name_dict(d) == [i \in 1..NRows(d) |-> d[i][1]]

\* DataFrame.replace(dict) of one cell
Replace(cell, dict) == IF cell \in DOMAIN dict THEN dict[cell] ELSE cell

\* df.iloc[:,3:] = df.iloc[:,3:].replace(dict)
ReplaceDeps(d, dict) ==
    [i \in 1..NRows(d) |->
        [c \in 1..Len(d[i]) |-> IF c > 3 THEN Replace(d[i][c], dict) ELSE d[i][c]]]

switch_from_names(d) == ReplaceDeps(d, name_to_row_dict(d))

switch_to_names(d) == ReplaceDeps(d, row_to_name_dict(d))

\* astype(float) keeps the value of every numeric cell
nums_to_float(d) == d

df_from_sheet(sh) ==
    switch_to_names(nums_to_float(switch_from_names(trim_df(fill_blanks(sh)))))

----------------------------------------------------------------------------
(* Enumeration and validation of the orderings *)

\* the elements of a set of numbers, in increasing order
RECURSIVE SortedSeq(_)
SortedSeq(S) ==
    IF S = {} THEN <<>> ELSE <<SetMin(S)>> \o SortedSeq(S \ {SetMin(S)})

\* every sequence of ps with x put in front
RECURSIVE Prepend(_, _)
Prepend(x, ps) ==
    IF ps = <<>> THEN <<>> ELSE <<(<<x>> \o ps[1])>> \o Prepend(x, Tail(ps))

\* itertools.permutations of the elements xs of the pool, in the order it emits
\* them: for each element in pool order, that element, then the permutations
\* of the rest
RECURSIVE permutations(_)
RECURSIVE PermsFrom(_, _)
permutations(pool) ==
    IF pool = <<>> THEN << <<>> >> ELSE PermsFrom(pool, 1)
PermsFrom(pool, k) ==
    IF k > Len(pool) THEN <<>>
    ELSE Prepend(pool[k],
                 permutations(SubSeq(pool, 1, k - 1) \o SubSeq(pool, k + 1, Len(pool))))
         \o PermsFrom(pool, k + 1)

\* gen_perms with range(1, rows) for range(1, rows+1)
gen_perms_short(d) == permutations(SortedSeq(1..(NRows(d) - 1)))

\* gen_perms: permutations(range(1, rows+1))
gen_perms(d) == permutations(SortedSeq(1..NRows(d)))

\* df.filter(like='D').values
DepsOf(d) == [i \in 1..NRows(d) |-> DepCells(d[i])]

\* check_perm with prev_ind = [] for prev_ind = [0]
PrevIndNoSeed(perm, k) == SubSeq(perm, 1, k)

\* check_perm: prev_ind once the loop has appended perm[k]
PrevInd(perm, k) == <<0>> \o SubSeq(perm, 1, k)

\* check_perm: all(elem in prev_ind for elem in dep) at position k
DepsPlaced(perm, dps, k) ==
    \A c \in 1..Len(dps[perm[k]]) : dps[perm[k]][c] \in Range(PrevInd(perm, k))

check_perm(perm, dps) == \A k \in 1..Len(perm) : DepsPlaced(perm, dps, k)

RECURSIVE validate_perms(_, _)
validate_perms(ps, dps) ==
    IF ps = <<>> THEN <<>>
    ELSE (IF check_perm(ps[1], dps) THEN <<ps[1]>> ELSE <<>>)
         \o validate_perms(Tail(ps), dps)

----------------------------------------------------------------------------
(* The expected time of an ordering *)

\* np.tril(np.repeat(np.expand_dims(arr, 0), len(arr), 0))
expand_to_lower_tri_mat(arr) ==
    [r \in 1..Len(arr) |-> [c \in 1..Len(arr) |-> IF c <= r THEN arr[c] ELSE 0]]

\* np.fill_diagonal left out
FillDiagonalKept(mat) == mat

\* np.fill_diagonal(mat, 0)
FillDiagonalZero(mat) ==
    [r \in 1..Len(mat) |-> [c \in 1..Len(mat[r]) |-> IF c = r THEN 0 ELSE mat[r][c]]]

\* np.triu(np.ones(shape)) with its diagonal zeroed
UpperOnes(n) == [r \in 1..n |-> [c \in 1..n |-> IF c > r THEN One ELSE 0]]

\* np.diag(arr)
Diag(arr) ==
    [r \in 1..Len(arr) |-> [c \in 1..Len(arr) |-> IF c = r THEN arr[c] ELSE 0]]

prob_prod_arr(prob_mat, prob_col) ==
    LET m == FillDiagonalZero(prob_mat)
        ones == UpperOnes(Len(prob_col))
        diag == Diag(prob_col)
    IN  [r \in 1..Len(prob_col) |->
            FProd([c \in 1..Len(prob_col) |->
                      FAdd(FAdd(ones[r][c], m[r][c]), diag[r][c])])]

sum_times(time_mat) ==
    LET m == FillDiagonalZero(time_mat)
    IN  [r \in 1..Len(m) |-> FSum(m[r])]

expected_time_eq(prod_arr, sum_arr, time_col, prob_col, prob_comp) ==
    LET prob_succ == FProd(prob_comp)
        total_time == FSum(time_col)
        exp_time_given_fail_on_task ==
            [i \in 1..Len(time_col) |->
                FAdd(FAdd(FSub(sum_arr[i], FDiv(time_col[i], prob_col[i])),
                          FDiv(time_col[i],
                               FLog(FDiv(One, FSub(One, prob_col[i]))))),
                     time_col[i])]
        prob_fail_on_task == prod_arr
    IN  FAdd(FMul(prob_succ, total_time),
             FSum([i \in 1..Len(time_col) |->
                      FMul(prob_fail_on_task[i], exp_time_given_fail_on_task[i])]))

\* get_expected_times: prob_col of one ordering
ProbColOf(perm, d) == [i \in 1..Len(perm) |-> ProbToFloat(ProbCol(d)[perm[i]])]

\* get_expected_times: prob_comp of one ordering
ProbCompOf(perm, d) == [i \in 1..Len(perm) |-> FSub(One, ProbColOf(perm, d)[i])]

\* get_expected_times: prod_arr of one ordering
ProdArrOf(perm, d) ==
    prob_prod_arr(expand_to_lower_tri_mat(ProbCompOf(perm, d)), ProbColOf(perm, d))

\* the body of get_expected_times's loop: the expected time of one ordering
ExpectedTime(perm, d) ==
    LET prob_col == ProbColOf(perm, d)
        prob_comp == ProbCompOf(perm, d)
        prod_arr == ProdArrOf(perm, d)
        time_col == [i \in 1..Len(perm) |-> TimeToFloat(TimeCol(d)[perm[i]])]
        time_mat == expand_to_lower_tri_mat(time_col)
        sum_arr == sum_times(time_mat)
    IN  expected_time_eq(prod_arr, sum_arr, time_col, prob_col, prob_comp)

get_expected_times(ps, d) == [k \in 1..Len(ps) |-> ExpectedTime(ps[k], d)]

\* np.argmin taking the last position that holds the least value
ArgMinLast(xs) ==
    CHOOSE i \in 0..(Len(xs) - 1) :
        /\ \A k \in 1..Len(xs) : xs[i + 1] <= xs[k]
        /\ \A k \in (i + 2)..Len(xs) : xs[k] # xs[i + 1]

\* np.argmin replaced by the first position
ArgFirst(xs) == 0

\* np.argmin of a non-empty list, 0-based: the first NaN if there is one, else
\* the first position that holds the least value
ArgMin(xs) ==
    IF \E i \in 1..Len(xs) : xs[i] = NaN
    THEN SetMin({i \in 1..Len(xs) : xs[i] = NaN}) - 1
    ELSE SetMin({i \in 1..Len(xs) : \A k \in 1..Len(xs) : xs[i] <= xs[k]}) - 1

\* a <= b in the order np.sort puts floats in: NaN last
SortLeq(a, b) == b = NaN \/ (a # NaN /\ a <= b)

\* np.sort of a list
RECURSIVE Sort(_)
Sort(xs) ==
    IF xs = <<>> THEN <<>>
    ELSE LET i == CHOOSE k \in 1..Len(xs) : \A m \in 1..Len(xs) : SortLeq(xs[k], xs[m])
         IN  <<xs[i]>> \o Sort(SubSeq(xs, 1, i - 1) \o SubSeq(xs, i + 1, Len(xs)))

\* present_task_names: the names of the rows of arr, in order
present_task_names(arr, d) == [k \in 1..Len(arr) |-> row_to_name_dict(d)[arr[k]]]

\* the rows of the names without the - 1
BestIndexNoShift(names, d) ==
    [k \in 1..Len(names) |-> Replace(names[k], name_to_row_dict(d))]

\* best_df.replace(name_to_row_dict(df)).values.flatten() - 1
BestIndex(names, d) ==
    [k \in 1..Len(names) |-> Replace(names[k], name_to_row_dict(d)) - 1]

----------------------------------------------------------------------------
(* The sheets a run starts from *)

\* the durations and probabilities entered, by row
TimesEntered == <<2, 3, 1>>
ProbsEntered == <<5, 2, 8>>
NthOf(xs, i) == xs[((i - 1) % Len(xs)) + 1]

\* (Time, Probability) columns of n tasks: all different, all alike, all alike
\* but the first, and with a probability of 1.0 or of 0 in the first row
ParamTables(n) ==
    { [time |-> [i \in 1..n |-> NthOf(TimesEntered, i)],
       prob |-> [i \in 1..n |-> NthOf(ProbsEntered, i)]],
      [time |-> [i \in 1..n |-> NthOf(TimesEntered, 1)],
       prob |-> [i \in 1..n |-> NthOf(ProbsEntered, 1)]],
      [time |-> [i \in 1..n |-> NthOf(TimesEntered, IF i = 1 THEN 2 ELSE 3)],
       prob |-> [i \in 1..n |-> NthOf(ProbsEntered, IF i = 1 THEN 2 ELSE 3)]],
      [time |-> [i \in 1..n |-> NthOf(TimesEntered, i + 1)],
       prob |-> [i \in 1..n |-> IF i = 1 THEN 10 ELSE NthOf(ProbsEntered, i)]],
      [time |-> [i \in 1..n |-> NthOf(TimesEntered, i + 1)],
       prob |-> [i \in 1..n |-> IF i = 1 THEN 0 ELSE NthOf(ProbsEntered, i)]] }

\* Task columns of n tasks: unique names, and the first row repeating the last
\* row's name
NameTables(n) ==
    { [i \in 1..n |-> Name(i)],
      [i \in 1..n |-> IF i = 1 THEN Name(n) ELSE Name(i)] }

\* the grid of build_sheet with the table in its top left corner
SheetOf(names, params, depcells) ==
    [r \in 1..SheetRows |->
        [c \in 1..SheetCols |->
            IF r > Len(names) THEN Blank
            ELSE IF c = 1 THEN names[r]
            ELSE IF c = 2 THEN params.time[r]
            ELSE IF c = 3 THEN params.prob[r]
            ELSE IF c - 3 <= Len(depcells[r]) THEN depcells[r][c - 3]
            ELSE Blank]]

Sheets ==
    UNION { UNION { UNION { UNION {
        { SheetOf(names, params, depcells) :
            depcells \in [1..n -> [1..d -> {0} \cup Range(names)]] } :
        params \in ParamTables(n) } :
        names \in NameTables(n) } :
        d \in {k \in 1..(SheetCols - 3) : n * k <= MaxDepCells} } :
        n \in 1..MaxTasks }

----------------------------------------------------------------------------
(* run_program and main *)

MainIdle ==
    /\ pc = "idle" /\ sheet = <<>> /\ df = <<>> /\ deps = <<>> /\ perms = <<>>
    /\ valid_perms = <<>> /\ sums = <<>> /\ sorted_sums = <<>>
    /\ best_order = <<>> /\ best_df = <<>> /\ best_index = <<>>

SimIdle ==
    /\ sim_pc = "idle" /\ sim_time = <<>> /\ sim_prob = <<>> /\ totals = <<>>
    /\ success_count = 0 /\ prior_task_time = 0 /\ sim_j = 0 /\ hist_vals = <<>>

TrimIdle == trim_pc = "idle" /\ trim_in = <<>> /\ trim_out = <<>>

Init ==
    /\ pc = "run"
    /\ sheet \in Sheets
    /\ df = <<>> /\ deps = <<>> /\ perms = <<>>
    /\ valid_perms = <<>> /\ sums = <<>> /\ sorted_sums = <<>>
    /\ best_order = <<>> /\ best_df = <<>> /\ best_index = <<>>
    /\ SimIdle
    /\ TrimIdle

\* run_program: df = df_from_sheet(sheet), then main(df)
DfFromSheet ==
    /\ pc = "run"
    /\ df' = df_from_sheet(sheet)
    /\ pc' = "main"
    /\ UNCHANGED <<sheet, deps, perms, valid_perms, sums, sorted_sums, best_order,
                   best_df, best_index, simVars, trimVars>>

\* main: df = switch_from_names(df); deps = df.filter(like='D').values;
\* times = df['Time']...; probs = df['Probability']..., which raises KeyError
\* when trim_df has cut the Probability column off
MainSwitchFromNames ==
    /\ pc = "main"
    /\ df' = switch_from_names(df)
    /\ deps' = DepsOf(df')
    /\ pc' = IF NCols(df) < 3 THEN "KeyError" ELSE "gen_perms"
    /\ UNCHANGED <<sheet, perms, valid_perms, sums, sorted_sums, best_order,
                   best_df, best_index, simVars, trimVars>>

\* main: perms = gen_perms(df)
GenPerms ==
    /\ pc = "gen_perms"
    /\ perms' = gen_perms(df)
    /\ pc' = "validate_perms"
    /\ UNCHANGED <<sheet, df, deps, valid_perms, sums, sorted_sums, best_order,
                   best_df, best_index, simVars, trimVars>>

\* main: valid_perms = validate_perms(perms, deps)
ValidatePerms ==
    /\ pc = "validate_perms"
    /\ valid_perms' = validate_perms(perms, deps)
    /\ pc' = "get_expected_times"
    /\ UNCHANGED <<sheet, df, deps, perms, sums, sorted_sums, best_order,
                   best_df, best_index, simVars, trimVars>>

\* main: sums = get_expected_times(valid_perms, df); sorted_sums = np.sort(sums)
GetExpectedTimes ==
    /\ pc = "get_expected_times"
    /\ sums' = get_expected_times(valid_perms, df)
    /\ sorted_sums' = Sort(sums')
    /\ pc' = "argmin"
    /\ UNCHANGED <<sheet, df, deps, perms, valid_perms, best_order,
                   best_df, best_index, simVars, trimVars>>

\* main: best_order = valid_perms[np.argmin(sums)]; np.argmin raises
\* ValueError on an empty list
SelectBest ==
    /\ pc = "argmin"
    /\ IF sums = <<>>
       THEN /\ pc' = "ValueError"
            /\ UNCHANGED best_order
       ELSE /\ best_order' = valid_perms[ArgMin(sums) + 1]
            /\ pc' = "present"
    /\ UNCHANGED <<sheet, df, deps, perms, valid_perms, sums, sorted_sums,
                   best_df, best_index, simVars, trimVars>>

\* main: best_df = present_task_names(best_order, df); best_index = ...
PresentBest ==
    /\ pc = "present"
    /\ best_df' = present_task_names(best_order, df)
    /\ best_index' = BestIndex(best_df', df)
    /\ pc' = "simulate"
    /\ UNCHANGED <<sheet, df, deps, perms, valid_perms, sums, sorted_sums,
                   best_order, simVars, trimVars>>


\* simulate_failures: time and prob picked in the order of index (0-based rows)
PickRows(col, index) == [k \in 1..Len(index) |-> col[index[k] + 1]]

\* main: hist_vals = simulate_failures(df, best_index), up to the loop: the
\* trial count the loop starts with is SimTrials
CallSimulate ==
    /\ pc = "simulate"
    /\ sim_time' = PickRows([i \in 1..NRows(df) |-> TimeToFloat(TimeCol(df)[i])],
                            best_index)
    /\ sim_prob' = PickRows([i \in 1..NRows(df) |-> ProbToFloat(ProbCol(df)[i])],
                            best_index)
    /\ totals' = <<>>
    /\ success_count' = SimTrials
    /\ prior_task_time' = 0
    /\ sim_j' = 0
    /\ hist_vals' = <<>>
    /\ sim_pc' = "loop"
    /\ pc' = "simulate_failures"
    /\ UNCHANGED <<sheet, df, deps, perms, valid_perms, sums, sorted_sums,
                   best_order, best_df, best_index, trimVars>>

Next ==
    \/ DfFromSheet
    \/ MainSwitchFromNames
    \/ GenPerms
    \/ ValidatePerms
    \/ GetExpectedTimes
    \/ SelectBest
    \/ PresentBest
    \/ CallSimulate

Spec == Init /\ [][Next]_vars

----------------------------------------------------------------------------
(* simulate_failures, on any sequence of rows of the table of TimesEntered and *)
(* ProbsEntered                                                               *)

get_lambdas(time, prob) ==
    [k \in 1..Len(time) |->
        FMul(FDiv(One, time[k]), FLog(FDiv(One, FSub(One, prob[k]))))]

\* the values RV(Exponential(rate)).sim draws: any time from 0 on
DrawSet == {TimeToFloat(k) : k \in 0..MaxDraw}

\* trials.filter_leq(t)
RECURSIVE filter_leq(_, _)
filter_leq(trials, t) ==
    IF trials = <<>> THEN <<>>
    ELSE (IF FLeq(trials[1], t) THEN <<trials[1]>> ELSE <<>>)
         \o filter_leq(Tail(trials), t)

\* the failure times without prior_task_time added
FailureTimesNoPrior(failed, prior) == failed

\* np.array(list(failed)) + prior_task_time
FailureTimes(failed, prior) == [m \in 1..Len(failed) |-> FAdd(failed[m], prior)]

\* success_count left at len(trials)
SurvivorsAll(trials, failed) == Len(trials)

\* len(trials) - len(failed)
Survivors(trials, failed) == Len(trials) - Len(failed)

SimInit ==
    /\ MainIdle
    /\ TrimIdle
    /\ sim_pc = "loop"
    /\ \E n \in 1..SimMaxTasks : \E index \in [1..n -> 0..(Len(TimesEntered) - 1)] :
        /\ sim_time = PickRows([i \in 1..Len(TimesEntered) |->
                                  TimeToFloat(TimesEntered[i])], index)
        /\ sim_prob = PickRows([i \in 1..Len(ProbsEntered) |->
                                  ProbToFloat(ProbsEntered[i])], index)
    /\ totals = <<>>
    /\ success_count = SimTrials
    /\ prior_task_time = 0
    /\ sim_j = 0
    /\ hist_vals = <<>>

\* one pass of the loop over the tasks
SimTaskStep ==
    /\ sim_pc = "loop"
    /\ sim_j < Len(sim_time)
    /\ LET j == sim_j + 1
           rate == get_lambdas(sim_time, sim_prob)[j]
       IN  /\ IsFinite(rate) /\ rate > 0
           /\ \E trials \in [1..success_count -> DrawSet] :
                LET failed == filter_leq(trials, sim_time[j])
                IN  /\ totals' = Append(totals, FailureTimes(failed, prior_task_time))
                    /\ success_count' = Survivors(trials, failed)
                    /\ prior_task_time' = FAdd(prior_task_time, sim_time[j])
           /\ sim_j' = j
    /\ UNCHANGED <<sim_pc, sim_time, sim_prob, hist_vals, mainVars, trimVars>>

\* totals = np.hstack(totals); return totals
SimReturn ==
    /\ sim_pc = "loop"
    /\ sim_j = Len(sim_time)
    /\ hist_vals' = Flatten(totals)
    /\ sim_pc' = "done"
    /\ UNCHANGED <<sim_time, sim_prob, totals, success_count, prior_task_time,
                   sim_j, mainVars, trimVars>>

SimNext == SimTaskStep \/ SimReturn

SpecSim == SimInit /\ [][SimNext]_vars

----------------------------------------------------------------------------
(* trim_df, from any sheet *)

TrimInit ==
    /\ MainIdle
    /\ SimIdle
    /\ trim_pc = "call"
    /\ \E r \in 1..MaxTrimRows : \E c \in 1..MaxTrimCols :
        trim_in \in [1..r -> [1..c -> {0, 1}]]
    /\ trim_out = <<>>

TrimDf ==
    /\ trim_pc = "call"
    /\ trim_out' = trim_df(trim_in)
    /\ trim_pc' = "done"
    /\ UNCHANGED <<trim_in, mainVars, simVars>>

TrimNext == TrimDf

SpecTrim == TrimInit /\ [][TrimNext]_vars

----------------------------------------------------------------------------
(* Properties of check_perm, validate_perms and gen_perms *)

\* the positions of main from which valid_perms holds validate_perms's result
Validated ==
    pc \in {"get_expected_times", "argmin", "present", "simulate",
            "simulate_failures", "ValueError"}

\* the positions of main from which perms holds the enumeration
Enumerated == Validated \/ pc = "validate_perms"

\* the positions of main from which best_order holds the selection
Selected == pc \in {"present", "simulate", "simulate_failures"}

\* the dependencies row i declares: its cells other than the sentinel 0
Declared(dps, i) == Range(dps[i]) \ {0}

\* every declared dependency of the task at each position k of perm is placed
\* at a position strictly before k
StrictlyPrecede(perm, dps) ==
    \A k \in 1..Len(perm) : \A dep \in Declared(dps, perm[k]) :
        \E m \in 1..(k - 1) : perm[m] = dep

\* the rows reached from row i along at most k dependency edges (one at least)
RECURSIVE ReachedFrom(_, _, _)
ReachedFrom(dps, i, k) ==
    IF k = 0 THEN {}
    ELSE LET near == Declared(dps, i) \cap (1..Len(dps))
         IN  near \cup UNION {ReachedFrom(dps, m, k - 1) : m \in near}

\* the dependency relation has a cycle, of any length from 1 on
HasCycle(dps) == \E i \in 1..Len(dps) : i \in ReachedFrom(dps, i, Len(dps))

\* C1: in every ordering validate_perms accepted, every declared dependency of
\* the task at position k is placed strictly before k, whatever the dependency
\* table, one with a task that lists itself included.
C1_AcceptedOrderingsRespectDeps ==
    Validated => \A k \in 1..Len(valid_perms) : StrictlyPrecede(valid_perms[k], deps)

----------------------------------------------------------------------------
(* Properties of main *)

\* the tasks entered in the sheet: the rows with a name
TasksEntered == {r \in 1..Len(sheet) : sheet[r][1] # Blank}

\* every probability entered lies strictly between 0 and 1
ProbsInRange == \A r \in TasksEntered : sheet[r][3] \in 1..9

\* no task declares a dependency
NoDeps == \A i \in 1..Len(deps) : Declared(deps, i) = {}

\* C2: with a feasible ordering at hand (and every probability inside (0,1),
\* so that every expected time is a number), best_order is one of the orderings
\* validate_perms returned and its expected time is at most that of every
\* ordering validate_perms returned; an ordering check_perm rejects is never
\* selected.
C2_BestIsFeasibleMinimum ==
    (Selected /\ ProbsInRange) =>
        /\ \E k \in 1..Len(valid_perms) :
              /\ best_order = valid_perms[k]
              /\ \A m \in 1..Len(sums) : FLeq(sums[k], sums[m])
        /\ \A m \in 1..Len(valid_perms) :
              FLeq(ExpectedTime(best_order, df), ExpectedTime(valid_perms[m], df))
        /\ check_perm(best_order, deps)
        /\ StrictlyPrecede(best_order, deps) \/ HasCycle(deps)

\* C2's case: the minimum is not the first feasible ordering, and an ordering
\* that was rejected would have scored lower than the one selected
C2_Witness ==
    /\ Selected /\ ProbsInRange
    /\ Len(valid_perms) >= 2
    /\ best_order # valid_perms[1]
    /\ ~HasCycle(deps)
    /\ \E m \in 1..Len(perms) :
          /\ ~check_perm(perms[m], deps)
          /\ FLess(ExpectedTime(perms[m], df), ExpectedTime(best_order, df))

\* C3: when validate_perms returned no ordering, main ends in the outcome
\* "no valid sequence exists", never in np.argmin's ValueError on the empty list
C3_EmptyFeasibleSetIsReported ==
    (Validated /\ valid_perms = <<>> /\ pc \notin {"get_expected_times", "argmin"})
        => pc = "NoValidSequence"

\* C4: a sheet with a probability outside (0,1) is rejected before main
\* enumerates, validates, scores or simulates anything
C4_InvalidProbabilityRejected ==
    ~ProbsInRange => (perms = <<>> /\ sums = <<>> /\ sim_pc = "idle")

\* C5: when the dependency relation has a cycle of any length, a task that
\* depends on itself included, validate_perms returns no ordering
C5_CycleYieldsNoOrdering ==
    (Validated /\ HasCycle(deps)) => valid_perms = <<>>

\* C6: gen_perms yields exactly n! orderings, pairwise distinct, each a
\* bijection onto 1..n; validate_perms returns at most n! of them and all of
\* them when no task declares a dependency
C6_Exhaustive ==
    /\ Enumerated =>
          /\ Len(perms) = Fact(NRows(df))
          /\ \A a, b \in 1..Len(perms) : perms[a] = perms[b] => a = b
          /\ \A a \in 1..Len(perms) :
                /\ Len(perms[a]) = NRows(df)
                /\ Range(perms[a]) = 1..NRows(df)
    /\ Validated =>
          /\ Len(valid_perms) <= Fact(NRows(df))
          /\ Range(valid_perms) \subseteq Range(perms)
          /\ NoDeps => valid_perms = perms

\* C6's case: three tasks without dependencies, six orderings enumerated and
\* all six kept
C6_Witness ==
    /\ Validated
    /\ NRows(df) = 3
    /\ Len(perms) = 6
    /\ NoDeps
    /\ Len(valid_perms) = 6

\* C7: every ordering check_perm rejects has a position k and a declared
\* dependency of the task at k that is placed nowhere before k; that is, every
\* ordering whose declared dependencies all strictly precede their dependents
\* is accepted
C7_RejectedHaveViolation ==
    Validated =>
        \A m \in 1..Len(perms) :
            /\ StrictlyPrecede(perms[m], deps) => perms[m] \in Range(valid_perms)
            /\ perms[m] \notin Range(valid_perms) =>
                  \E k \in 1..Len(perms[m]) :
                      \E dep \in Declared(deps, perms[m][k]) :
                          dep \notin Range(SubSeq(perms[m], 1, k - 1))

\* C7's case: a table with declared dependencies, of whose orderings some are
\* accepted and some rejected
C7_Witness ==
    /\ Validated
    /\ ~NoDeps
    /\ valid_perms # <<>>
    /\ \E m \in 1..Len(perms) : perms[m] \notin Range(valid_perms)
    /\ \E m \in 1..Len(valid_perms) :
          \E k \in 2..Len(valid_perms[m]) : Declared(deps, valid_perms[m][k]) # {}

----------------------------------------------------------------------------
(* Properties of simulate_failures *)

\* the time elapsed before the task at position i + 1: the durations of the
\* first i tasks
RECURSIVE Elapsed(_)
Elapsed(i) == IF i = 0 THEN 0 ELSE Elapsed(i - 1) + sim_time[i]

\* the failure-time samples recorded so far
Recorded == Len(Flatten(totals))

\* C8: after each task step the trials still alive and the samples recorded
\* add up to the trial count the loop started with; the alive count never
\* grows; the trials alive after the last task add no sample to the result
C8_AlivePlusRecorded ==
    /\ [](sim_pc \in {"loop", "done"} =>
            /\ success_count + Recorded = SimTrials
            /\ success_count >= 0
            /\ sim_pc = "done" => Len(hist_vals) = SimTrials - success_count)
    /\ [][success_count' <= success_count]_vars

\* C8's case: a finished run of two tasks or more in which a trial failed at
\* the first task and a trial survived every task
C8_Witness ==
    /\ sim_pc = "done"
    /\ Len(totals) >= 2
    /\ totals[1] # <<>>
    /\ success_count >= 1
    /\ Len(hist_vals) = SimTrials - success_count

\* C9: a sample recorded at the task at position i is the time elapsed before
\* that task plus a drawn value that is at most t_i, so it lies between the
\* elapsed times before and after the task; and the elapsed time advances by
\* t_i at every step, failures or not
C9_SamplesWithinTask ==
    sim_pc \in {"loop", "done"} =>
        /\ Len(totals) = sim_j
        /\ prior_task_time = Elapsed(sim_j)
        /\ \A i \in 1..Len(totals) : \A m \in 1..Len(totals[i]) :
              /\ (totals[i][m] - Elapsed(i - 1)) \in DrawSet
              /\ totals[i][m] - Elapsed(i - 1) <= sim_time[i]
              /\ Elapsed(i - 1) <= totals[i][m]
              /\ totals[i][m] <= Elapsed(i)

\* C9's case: no trial failed at the first task, and a sample was recorded at
\* the second task strictly inside its window
C9_Witness ==
    /\ sim_j = 2
    /\ totals[1] = <<>>
    /\ \E m \in 1..Len(totals[2]) :
          /\ Elapsed(1) < totals[2][m]
          /\ totals[2][m] < Elapsed(2)

----------------------------------------------------------------------------
(* Properties of trim_df *)

\* the rows of d that hold a non-empty cell
KeptRows(d) == {r \in 1..NRows(d) : \E c \in 1..NCols(d) : d[r][c] # 0}

\* the columns of d that hold a non-empty cell
KeptCols(d) == {c \in 1..NCols(d) : \E r \in 1..NRows(d) : d[r][c] # 0}

\* d without its all-empty rows and columns
WithoutEmpty(d) ==
    LET rows == SortedSeq(KeptRows(d))
        cols == SortedSeq(KeptCols(d))
    IN  [r \in 1..Len(rows) |-> [c \in 1..Len(cols) |-> d[rows[r]][cols[c]]]]

\* C10: trim_df removes exactly the all-empty rows and columns: every row and
\* every column with a non-empty cell is kept
C10_TrimRemovesExactlyEmpty ==
    trim_pc = "done" => trim_out = WithoutEmpty(trim_in)

----------------------------------------------------------------------------
(* Properties of the scoring, the tie-break and the hand-over to the simulator *)

\* p_i times the product of the (1 - p_k) of the positions k before i, as a
\* running product from the left
RECURSIVE SurvivalBefore(_, _, _)
SurvivalBefore(perm, d, i) ==
    IF i = 1 THEN One
    ELSE FMul(SurvivalBefore(perm, d, i - 1), ProbCompOf(perm, d)[i - 1])

FailAt(perm, d, i) == FMul(SurvivalBefore(perm, d, i), ProbColOf(perm, d)[i])

\* C11: for every ordering, the triangular-matrix construction of
\* get_expected_times gives at each position i the value p_i times the product
\* of (1 - p_k) over the positions k before i, the value of a left-to-right
\* running product
C11_ProdArrIsRunningProduct ==
    pc = "argmin" =>
        \A m \in 1..Len(perms) :
            /\ Len(ProdArrOf(perms[m], df)) = Len(perms[m])
            /\ \A i \in 1..Len(perms[m]) :
                  ProdArrOf(perms[m], df)[i] = FailAt(perms[m], df, i)

\* C11's case: three tasks with different probabilities, scored; the last
\* position of an ordering has two factors (1 - p_k) before its p_i
C11_Witness ==
    /\ pc = "argmin"
    /\ ProbsInRange
    /\ NRows(df) = 3
    /\ \E m \in 1..Len(valid_perms) :
          /\ Cardinality(Range(ProbColOf(valid_perms[m], df))) = 3
          /\ ProdArrOf(valid_perms[m], df)[3] = FailAt(valid_perms[m], df, 3)
          /\ ProdArrOf(valid_perms[m], df)[3] > 0
          /\ ProdArrOf(valid_perms[m], df)[3] < ProbColOf(valid_perms[m], df)[3]


\* the position of an ordering in the enumeration of gen_perms
PosInPerms(q) == CHOOSE m \in 1..Len(perms) : perms[m] = q

\* C12: validate_perms keeps the feasible orderings in the order gen_perms
\* produced them, and the selection takes the earliest position that attains
\* the minimum: among feasible orderings of identical minimal expected time the
\* one first in enumeration order is selected
C12_FirstMinimumSelected ==
    /\ Validated =>
          \A a, b \in 1..Len(valid_perms) :
              a < b => PosInPerms(valid_perms[a]) < PosInPerms(valid_perms[b])
    /\ (Selected /\ ProbsInRange) =>
          \E k \in 1..Len(valid_perms) :
              /\ best_order = valid_perms[k]
              /\ \A m \in 1..Len(sums) : FLeq(sums[k], sums[m])
              /\ \A m \in 1..(k - 1) : sums[m] # sums[k]
              /\ \A m \in 1..Len(perms) :
                    (check_perm(perms[m], deps)
                        /\ ExpectedTime(perms[m], df) = ExpectedTime(best_order, df))
                    => PosInPerms(best_order) <= m

\* C12's case: several feasible orderings attain the minimum, the first
\* ordering of the enumeration is not feasible, and an ordering with a larger
\* expected time comes before the one selected
C12_Witness ==
    /\ Selected /\ ProbsInRange
    /\ ~check_perm(perms[1], deps)
    /\ \E a, b \in 1..Len(valid_perms) :
          /\ a < b
          /\ best_order = valid_perms[a]
          /\ sums[a] = sums[b]
    /\ \E m \in 1..Len(valid_perms) :
          /\ FLess(ExpectedTime(best_order, df), sums[m])
          /\ PosInPerms(valid_perms[m]) < PosInPerms(best_order)

\* no task name is entered on two rows
UniqueNames(d) == Cardinality(Range(TaskCol(d))) = NRows(d)

\* the rows of an ordering, counted from 0
ZeroBased(order) == [k \in 1..Len(order) |-> order[k] - 1]

\* C13: when the task names are unique, turning the selected ordering into task
\* names and back into row indices (less 1) gives the ordering back, so the
\* simulation is run on the durations and probabilities of exactly the tasks of
\* best_order, in the same sequence.
C13_RoundTripIsIdentity ==
    (pc \in {"simulate", "simulate_failures"} /\ UniqueNames(df)) =>
        /\ best_index = ZeroBased(best_order)
        /\ pc = "simulate_failures" =>
              /\ sim_time = [k \in 1..Len(best_order) |->
                                TimeToFloat(TimeCol(df)[best_order[k]])]
              /\ sim_prob = [k \in 1..Len(best_order) |->
                                ProbToFloat(ProbCol(df)[best_order[k]])]

C13_Witness ==
    /\ pc = "simulate_failures"
    /\ UniqueNames(df)
    /\ NRows(df) = 3
    /\ Cardinality(Range(TimeCol(df))) = 3
    /\ best_order[1] # 1
    /\ best_index = ZeroBased(best_order)
    /\ sim_time[1] = TimeToFloat(TimeCol(df)[best_order[1]])
    /\ sim_time[1] # TimeToFloat(TimeCol(df)[1])

\* a repeated task name sends the simulation to another row than the selected
\* ordering names
C13_DuplicateNamesDiverge ==
    /\ pc = "simulate_failures"
    /\ ~UniqueNames(df)
    /\ best_index # ZeroBased(best_order)
    /\ \E k \in 1..Len(best_order) :
          sim_time[k] # TimeToFloat(TimeCol(df)[best_order[k]])

====
